---- MODULE Spec2Model ----
(***************************************************************************)
(* Model of sample-app/app.py: a Flask application whose request pipeline  *)
(* (before_request -> view function -> after_request) feeds Prometheus and *)
(* OpenTelemetry instruments, and whose view functions open trace spans.   *)
(*                                                                         *)
(* Time is counted in hundredths of a second.  The module-level generator  *)
(* of `random` is a deterministic generator with hidden state: it is the   *)
(* variable rng, seeded nondeterministically by Init and advanced by every *)
(* draw.                                                                   *)
(***************************************************************************)
EXTENDS Integers, Sequences, FiniteSets, Bags, TLC

\* ------------------------------------------------------------------ bounds
MaxRequests == 2        \* requests served one after another (Spec)
SeqSeeds == 3           \* seeds of the generator tried by Spec
ConcRequests == 2       \* requests in flight together (SpecConc)
ErrRequests == 4        \* GET /error requests in a row (SpecError)
LoadRequests == 1       \* GET /generate-load requests (SpecLoad)
SlowRequests == 1       \* GET /slow requests (SpecSlow)
RngMod == 64            \* number of states of the generator

\* ------------------------------------------------------- program constants
SlowMin == 100          \* random.uniform(1, 3)
SlowMax == 300
CpuIterations == 100000 \* range(100000)
TimeoutSleep == 1000    \* time.sleep(10)
LoadMin == 10           \* random.randint(10, 50)
LoadMax == 50
FastMin == 1            \* random.uniform(0.01, 0.1)
FastMax == 10
MediumMin == 10         \* random.uniform(0.1, 0.5)
MediumMax == 50
LoadSlowMin == 50       \* random.uniform(0.5, 1.0)
LoadSlowMax == 100
RemoteDelay == 100      \* https://httpbin.org/delay/1
ClientTimeout == 500    \* timeout=5

None == "None"
NoStartTime == -1
JSON == "application/json"
CONTENT_TYPE_LATEST == "text/plain; version=0.0.4; charset=utf-8"

VARIABLES
    pc,                    \* where each request is in the pipeline
    request,               \* flask.request of each request
    loc,                   \* local variables of the running view function
    resp,                  \* the response produced for the request
    sent,                  \* the response after_request returned to the server
    stack,                 \* the spans current in the request's context
    events,                \* span starts and ends seen by the span processor
    issued,                \* the metric calls each request has made
    REQUEST_COUNT,         \* http_requests_total, a bag of label sets
    REQUEST_LATENCY,       \* http_request_duration_seconds
    BUSINESS_METRIC,       \* business_operations_total, a bag of operation types
    otel_request_counter,
    otel_request_duration,
    rng,                   \* state of the generator of module random
    now                    \* time.time()

vars == <<pc, request, loc, resp, sent, stack, events, issued, REQUEST_COUNT,
          REQUEST_LATENCY, BUSINESS_METRIC, otel_request_counter,
          otel_request_duration, rng, now>>

metricVars == <<REQUEST_COUNT, REQUEST_LATENCY, BUSINESS_METRIC,
                otel_request_counter, otel_request_duration>>

\* The instruments only after_request writes.
httpVars == <<REQUEST_COUNT, REQUEST_LATENCY, otel_request_counter,
              otel_request_duration>>

Reqs == DOMAIN pc

\* ------------------------------------------------------------ module random
NextRng(s) == (5 * s + 3) % RngMod

\* The generator after n draws: the map s |-> a*s + c composed n times.
RECURSIVE Affine(_)
Affine(n) ==
    IF n = 0 THEN <<1, 0>>
    ELSE LET h == Affine(n \div 2)
             sq == <<(h[1] * h[1]) % RngMod, (h[1] * h[2] + h[2]) % RngMod>>
         IN IF n % 2 = 0 THEN sq
            ELSE <<(5 * sq[1]) % RngMod, (5 * sq[2] + 3) % RngMod>>

AdvanceRng(s, n) == LET m == Affine(n) IN (m[1] * s + m[2]) % RngMod

\* random.randint(a, b): a whole number of a..b drawn from state s.
randintOver(a, b, s) == a + (s % (b - a + 2))
randint(a, b, s) == a + (s % (b - a + 1))

\* random.choice(seq)
choice(seq, s) == seq[(s % Len(seq)) + 1]

\* random.uniform(a, b) = a + (b - a) * random(), in hundredths; the end
\* point b is included, as rounding allows.
uniformOver(a, b, s) == a + ((b - a + 1) * s) \div (RngMod - 1)
uniform(a, b, s) == a + ((b - a) * s) \div (RngMod - 1)

\* ------------------------------------------------------- prometheus_client
IncLost(counter, labels) ==
    IF BagIn(labels, counter) THEN counter ELSE counter (+) SetToBag({labels})
Inc(counter, labels) == counter (+) SetToBag({labels})

Observe(histogram, amount) ==
    [count |-> histogram.count + 1, sum |-> histogram.sum + amount]

generate_latestEmpty(counts, latency, business) ==
    [http_requests_total |-> EmptyBag,
     http_request_duration_seconds |-> latency,
     business_operations_total |-> business]
generate_latest(counts, latency, business) ==
    [http_requests_total |-> counts,
     http_request_duration_seconds |-> latency,
     business_operations_total |-> business]

\* ------------------------------------------------------------------ Flask
EmptyArgs == [k \in {} |-> ""]

ArgsGet(args, key, default) == IF key \in DOMAIN args THEN args[key] ELSE default

Paths == {"/", "/slow", "/error", "/external", "/metrics", "/health",
          "/generate-load"}

\* app.route: the view function registered for a path.
Route(path) ==
    CASE path = "/" -> "home"
      [] path = "/slow" -> "slow_operation"
      [] path = "/error" -> "error_scenario"
      [] path = "/external" -> "external_call"
      [] path = "/metrics" -> "metrics"
      [] path = "/health" -> "health"
      [] path = "/generate-load" -> "generate_load"
      [] OTHER -> None

\* request.endpoint: set only when the URL matched a rule for the method.
Endpoint(method, path) == IF method = "GET" THEN Route(path) ELSE None

jsonify(status, body) == [status |-> status, headers |-> JSON, body |-> body]

NoResponse == [status |-> 0, headers |-> None, body |-> EmptyArgs]

NoLocals ==
    [sleep_time |-> 0, iterations |-> 0, error_type |-> None,
     operations |-> 0, i |-> 0, results |-> <<>>, operation_type |-> None,
     remote |-> [kind |-> None, status_code |-> 0, json |-> FALSE, took |-> 0],
     exc |-> None]

NoIssued == [http |-> EmptyBag, business |-> EmptyBag, observed |-> 0]

\* ------------------------------------------------------------ trace spans
Span(name, n) == [name |-> name, n |-> n]

StartSpan(r, span) ==
    /\ stack' = [stack EXCEPT ![r] = Append(@, span)]
    /\ events' = [events EXCEPT ![r] = Append(@, <<"start", span>>)]

RECURSIVE UnwindOuterFirst(_)
UnwindOuterFirst(st) ==
    IF st = <<>> THEN <<>>
    ELSE <<<<"end", st[1]>>>> \o UnwindOuterFirst(Tail(st))

RECURSIVE Unwind(_)
\* The end events of leaving every open `with` block, innermost first.
Unwind(st) ==
    IF st = <<>> THEN <<>>
    ELSE <<<<"end", st[Len(st)]>>>> \o Unwind(SubSeq(st, 1, Len(st) - 1))

\* Leaving the k innermost `with tracer.start_as_current_span(...)` blocks.
EndSpans(r, k) ==
    LET st == stack[r]
        keep == SubSeq(st, 1, Len(st) - k)
        gone == SubSeq(st, Len(st) - k + 1, Len(st))
    IN /\ stack' = [stack EXCEPT ![r] = keep]
       /\ events' = [events EXCEPT ![r] = @ \o Unwind(gone)]

\* ------------------------------------------------------------------- Init
InitWith(n, seeds) ==
    /\ pc = [r \in 1..n |-> "idle"]
    /\ request = [r \in 1..n |->
                    [method |-> None, path |-> None, args |-> EmptyArgs,
                     endpoint |-> None, start_time |-> NoStartTime]]
    /\ loc = [r \in 1..n |-> NoLocals]
    /\ resp = [r \in 1..n |-> NoResponse]
    /\ sent = [r \in 1..n |-> NoResponse]
    /\ stack = [r \in 1..n |-> <<>>]
    /\ events = [r \in 1..n |-> <<>>]
    /\ issued = [r \in 1..n |-> NoIssued]
    /\ REQUEST_COUNT = EmptyBag
    /\ REQUEST_LATENCY = [count |-> 0, sum |-> 0]
    /\ BUSINESS_METRIC = EmptyBag
    /\ otel_request_counter = EmptyBag
    /\ otel_request_duration = [count |-> 0, sum |-> 0]
    /\ rng \in seeds
    /\ now = 0

\* -------------------------------------------------------- request pipeline
Req(method, path, args) == [method |-> method, path |-> path, args |-> args]

\* A request reaches the server: the URL is matched against the rules.
Arrive(r, kinds) ==
    /\ pc[r] = "idle"
    /\ \E k \in kinds :
         request' = [request EXCEPT ![r] =
                       [method |-> k.method, path |-> k.path, args |-> k.args,
                        endpoint |-> Endpoint(k.method, k.path),
                        start_time |-> NoStartTime]]
    /\ pc' = [pc EXCEPT ![r] = "before"]
    /\ UNCHANGED <<loc, resp, sent, stack, events, issued, metricVars, rng, now>>

before_request(r) ==
    /\ pc[r] = "before"
    /\ request' = [request EXCEPT ![r].start_time = now]
    /\ pc' = [pc EXCEPT ![r] = "dispatch"]
    /\ UNCHANGED <<loc, resp, sent, stack, events, issued, metricVars, rng, now>>

\* No rule matched (404) or the rule does not allow the method (405): the
\* routing exception becomes the response, and the pipeline goes on.
RoutingError(r) ==
    /\ pc[r] = "dispatch"
    /\ request[r].endpoint = None
    /\ resp' = [resp EXCEPT ![r] =
                  [status |-> IF Route(request[r].path) = None THEN 404 ELSE 405,
                   headers |-> "text/html", body |-> EmptyArgs]]
    /\ pc' = [pc EXCEPT ![r] = "after"]
    /\ UNCHANGED <<request, loc, sent, stack, events, issued, metricVars, rng, now>>

\* An exception left the view function: it becomes a 500 response, which is
\* finalized like any other response.
HandleException(r) ==
    /\ pc[r] = "exception"
    /\ resp' = [resp EXCEPT ![r] =
                  [status |-> 500, headers |-> "text/html", body |-> EmptyArgs]]
    /\ pc' = [pc EXCEPT ![r] = "after"]
    /\ UNCHANGED <<request, loc, sent, stack, events, issued, metricVars, rng, now>>

HasNoStartTime(rq) == FALSE
HasStartTime(rq) == rq.start_time # NoStartTime

EndpointLabelRaw(rq) == rq.endpoint
EndpointLabel(rq) == IF rq.endpoint = None THEN "unknown" ELSE rq.endpoint

RequestLabels(rq, response) ==
    [method |-> rq.method, endpoint |-> EndpointLabel(rq),
     status |-> response.status]

ReturnedOk(response) == [response EXCEPT !.status = 200]
Returned(response) == response

after_request(r) ==
    /\ pc[r] = "after"
    /\ LET labels == RequestLabels(request[r], resp[r])
           timed == HasStartTime(request[r])
           duration == now - request[r].start_time
       IN /\ REQUEST_COUNT' = Inc(REQUEST_COUNT, labels)
          /\ REQUEST_LATENCY' =
                IF timed THEN Observe(REQUEST_LATENCY, duration) ELSE REQUEST_LATENCY
          /\ otel_request_counter' =
                IF timed THEN Inc(otel_request_counter, labels)
                ELSE otel_request_counter
          /\ otel_request_duration' =
                IF timed THEN Observe(otel_request_duration, duration)
                ELSE otel_request_duration
          /\ issued' = [issued EXCEPT
                          ![r].http = @ (+) SetToBag({labels}),
                          ![r].observed = IF timed THEN @ + 1 ELSE @]
    /\ sent' = [sent EXCEPT ![r] = Returned(resp[r])]
    /\ pc' = [pc EXCEPT ![r] = "done"]
    /\ UNCHANGED <<request, loc, resp, stack, events, BUSINESS_METRIC, rng, now>>

\* ----------------------------------------------------------- view functions
Enters(r, endpoint) == pc[r] = "dispatch" /\ request[r].endpoint = endpoint

home(r) ==
    /\ Enters(r, "home")
    /\ resp' = [resp EXCEPT ![r] =
                  jsonify(200, [message |-> "Welcome to the 4-Signal Observability Demo"])]
    /\ pc' = [pc EXCEPT ![r] = "after"]
    /\ UNCHANGED <<request, loc, sent, stack, events, issued, metricVars, rng, now>>

health(r) ==
    /\ Enters(r, "health")
    /\ resp' = [resp EXCEPT ![r] =
                  jsonify(200, [status |-> "healthy", timestamp |-> now,
                                service |-> "sample-app", version |-> "1.0.0"])]
    /\ pc' = [pc EXCEPT ![r] = "after"]
    /\ UNCHANGED <<request, loc, sent, stack, events, issued, metricVars, rng, now>>

metrics(r) ==
    /\ Enters(r, "metrics")
    /\ resp' = [resp EXCEPT ![r] =
                  [status |-> 200, headers |-> CONTENT_TYPE_LATEST,
                   body |-> generate_latest(REQUEST_COUNT, REQUEST_LATENCY,
                                            BUSINESS_METRIC)]]
    /\ pc' = [pc EXCEPT ![r] = "after"]
    /\ UNCHANGED <<request, loc, sent, stack, events, issued, metricVars, rng, now>>

\* BUSINESS_METRIC.labels(operation_type=op).inc()
Business(r, op) ==
    /\ BUSINESS_METRIC' = Inc(BUSINESS_METRIC, op)
    /\ issued' = [issued EXCEPT ![r].business = @ (+) SetToBag({op})]

\* ---- /slow
SlowSleepTimeLong(s) == uniformOver(SlowMin, SlowMax, s)
SlowSleepTime(s) == uniform(SlowMin, SlowMax, s)

\* Opens the span, draws the sleep time and sleeps.
slow_operation(r) ==
    /\ Enters(r, "slow_operation")
    /\ StartSpan(r, Span("slow_operation", 0))
    /\ loc' = [loc EXCEPT ![r].sleep_time = SlowSleepTime(rng)]
    /\ rng' = NextRng(rng)
    /\ now' = now + SlowSleepTime(rng)
    /\ pc' = [pc EXCEPT ![r] = "slow_cpu"]
    /\ UNCHANGED <<request, resp, sent, issued, metricVars>>

\* The nested span and its loop, one random.random() per iteration.
slow_cpu_work(r) ==
    /\ pc[r] = "slow_cpu"
    /\ StartSpan(r, Span("cpu_intensive_work", 0))
    /\ loc' = [loc EXCEPT ![r].iterations = CpuIterations]
    /\ rng' = AdvanceRng(rng, CpuIterations)
    /\ pc' = [pc EXCEPT ![r] = "slow_return"]
    /\ UNCHANGED <<request, resp, sent, issued, metricVars, now>>

\* Leaves the nested block, counts the operation, returns and leaves the
\* outer block.
slow_return(r) ==
    /\ pc[r] = "slow_return"
    /\ Business(r, "slow_operation")
    /\ resp' = [resp EXCEPT ![r] =
                  jsonify(200, [message |-> "Slow operation completed",
                                duration |-> loc[r].sleep_time,
                                result |-> "float"])]
    /\ EndSpans(r, 2)
    /\ pc' = [pc EXCEPT ![r] = "after"]
    /\ UNCHANGED <<request, loc, sent, httpVars, rng, now>>

\* ---- /error
ErrorTypes == <<"500", "404", "timeout", "success">>

RandomErrorType(s) == choice(ErrorTypes, s)

\* The branch taken for an error type: the response, the time slept before
\* it and whether the error_handled counter is incremented.
ErrorOutcomeNoSleep(t) ==
    CASE t = "500" ->
           [response |-> jsonify(500, [error |-> "Internal server error"]),
            sleep |-> 0, handled |-> FALSE]
      [] t = "404" ->
           [response |-> jsonify(404, [error |-> "Resource not found"]),
            sleep |-> 0, handled |-> FALSE]
      [] t = "timeout" ->
           [response |-> jsonify(200, [message |-> "This shouldn't be reached"]),
            sleep |-> 0, handled |-> FALSE]
      [] OTHER ->
           [response |-> jsonify(200, [message |-> "No error occurred"]),
            sleep |-> 0, handled |-> TRUE]
ErrorOutcomeTeapot(t) ==
    CASE t = "500" ->
           [response |-> jsonify(500, [error |-> "Internal server error"]),
            sleep |-> 0, handled |-> FALSE]
      [] t = "404" ->
           [response |-> jsonify(404, [error |-> "Resource not found"]),
            sleep |-> 0, handled |-> FALSE]
      [] t = "timeout" ->
           [response |-> jsonify(200, [message |-> "This shouldn't be reached"]),
            sleep |-> TimeoutSleep, handled |-> FALSE]
      [] t = "success" ->
           [response |-> jsonify(200, [message |-> "No error occurred"]),
            sleep |-> 0, handled |-> TRUE]
      [] OTHER ->
           [response |-> jsonify(418, [error |-> "Unknown error type"]),
            sleep |-> 0, handled |-> FALSE]
ErrorOutcome(t) ==
    CASE t = "500" ->
           [response |-> jsonify(500, [error |-> "Internal server error"]),
            sleep |-> 0, handled |-> FALSE]
      [] t = "404" ->
           [response |-> jsonify(404, [error |-> "Resource not found"]),
            sleep |-> 0, handled |-> FALSE]
      [] t = "timeout" ->
           [response |-> jsonify(200, [message |-> "This shouldn't be reached"]),
            sleep |-> TimeoutSleep, handled |-> FALSE]
      [] OTHER ->
           [response |-> jsonify(200, [message |-> "No error occurred"]),
            sleep |-> 0, handled |-> TRUE]

\* Reads the type parameter, opens the span and resolves `random`.
error_scenario(r) ==
    /\ Enters(r, "error_scenario")
    /\ StartSpan(r, Span("error_operation", 0))
    /\ LET error_type == ArgsGet(request[r].args, "type", "random")
       IN IF error_type = "random"
          THEN /\ loc' = [loc EXCEPT ![r].error_type = RandomErrorType(rng)]
               /\ rng' = NextRng(rng)
          ELSE /\ loc' = [loc EXCEPT ![r].error_type = error_type]
               /\ rng' = rng
    /\ pc' = [pc EXCEPT ![r] = "error_branch"]
    /\ UNCHANGED <<request, resp, sent, issued, metricVars, now>>

error_branch(r) ==
    /\ pc[r] = "error_branch"
    /\ LET out == ErrorOutcome(loc[r].error_type)
       IN /\ now' = now + out.sleep
          /\ IF out.handled THEN Business(r, "error_handled")
             ELSE UNCHANGED <<BUSINESS_METRIC, issued>>
          /\ resp' = [resp EXCEPT ![r] = out.response]
    /\ EndSpans(r, 1)
    /\ pc' = [pc EXCEPT ![r] = "after"]
    /\ UNCHANGED <<request, loc, sent, httpVars, rng>>

\* ---- /external
\* What requests.get can do: deliver a response whose body is JSON, deliver
\* one whose body is not (an error page of the remote gateway), or raise.
RemoteOutcomes ==
    { [kind |-> "response", status_code |-> 200, json |-> TRUE, took |-> RemoteDelay],
      [kind |-> "response", status_code |-> 503, json |-> FALSE, took |-> 0],
      [kind |-> "Timeout", status_code |-> 0, json |-> FALSE, took |-> ClientTimeout],
      [kind |-> "ConnectionError", status_code |-> 0, json |-> FALSE, took |-> 0] }

\* The class response.json() raises on a body that is not JSON: a
\* RequestException (requests.exceptions.JSONDecodeError) or a plain
\* ValueError, by the version of requests installed.
JSONErrorClasses == {"JSONDecodeError", "ValueError"}

IsRequestException(cls) == cls \in {"Timeout", "ConnectionError", "JSONDecodeError"}

\* Opens the span and makes the outbound call.
external_call(r) ==
    /\ Enters(r, "external_call")
    /\ StartSpan(r, Span("external_api_call", 0))
    /\ \E out \in RemoteOutcomes :
         /\ now' = now + out.took
         /\ IF out.kind = "response"
            THEN /\ loc' = [loc EXCEPT ![r].remote = out]
                 /\ pc' = [pc EXCEPT ![r] = "external_ok"]
            ELSE /\ loc' = [loc EXCEPT ![r].remote = out, ![r].exc = out.kind]
                 /\ pc' = [pc EXCEPT ![r] = "external_except"]
    /\ UNCHANGED <<request, resp, sent, issued, metricVars, rng>>

\* The rest of the try block: counts the success, then decodes the body.
external_ok(r) ==
    /\ pc[r] = "external_ok"
    /\ Business(r, "external_call_success")
    /\ IF loc[r].remote.json
       THEN /\ resp' = [resp EXCEPT ![r] =
                          jsonify(200, [message |-> "External call successful",
                                        status_code |-> loc[r].remote.status_code,
                                        data |-> "json"])]
            /\ EndSpans(r, 1)
            /\ pc' = [pc EXCEPT ![r] = "after"]
            /\ loc' = loc
       ELSE \E cls \in JSONErrorClasses :
              /\ loc' = [loc EXCEPT ![r].exc = cls]
              /\ resp' = resp
              /\ IF IsRequestException(cls)
                 THEN /\ pc' = [pc EXCEPT ![r] = "external_except"]
                      /\ UNCHANGED <<stack, events>>
                 ELSE /\ pc' = [pc EXCEPT ![r] = "exception"]
                      /\ EndSpans(r, 1)
    /\ UNCHANGED <<request, sent, httpVars, rng, now>>

\* except requests.exceptions.RequestException
external_except(r) ==
    /\ pc[r] = "external_except"
    /\ Business(r, "external_call_failure")
    /\ resp' = [resp EXCEPT ![r] =
                  jsonify(500, [error |-> "External call failed",
                                details |-> loc[r].exc])]
    /\ EndSpans(r, 1)
    /\ pc' = [pc EXCEPT ![r] = "after"]
    /\ UNCHANGED <<request, loc, sent, httpVars, rng, now>>

\* ---- /generate-load
OperationTypes == <<"fast", "medium", "slow">>

OperationCountOver(s) == randintOver(LoadMin, LoadMax, s)
OperationCount(s) == randint(LoadMin, LoadMax, s)

OperationSleep(type, s) ==
    CASE type = "fast" -> uniform(FastMin, FastMax, s)
      [] type = "medium" -> uniform(MediumMin, MediumMax, s)
      [] OTHER -> uniform(LoadSlowMin, LoadSlowMax, s)

LoadLabelFlat(type) == "load_fast"
LoadLabel(type) ==
    CASE type = "fast" -> "load_fast"
      [] type = "medium" -> "load_medium"
      [] OTHER -> "load_slow"

\* Opens the span and draws the number of operations.
generate_load(r) ==
    /\ Enters(r, "generate_load")
    /\ StartSpan(r, Span("load_generation", 0))
    /\ loc' = [loc EXCEPT ![r].operations = OperationCount(rng),
                          ![r].i = 0, ![r].results = <<>>]
    /\ rng' = NextRng(rng)
    /\ pc' = [pc EXCEPT ![r] = "load_loop"]
    /\ UNCHANGED <<request, resp, sent, issued, metricVars, now>>

\* One iteration, up to the end of its sleep: the span operation_i is open.
load_operation(r) ==
    /\ pc[r] = "load_loop"
    /\ loc[r].i < loc[r].operations
    /\ StartSpan(r, Span("operation", loc[r].i))
    /\ LET type == choice(OperationTypes, rng)
       IN /\ loc' = [loc EXCEPT ![r].operation_type = type]
          /\ now' = now + OperationSleep(type, NextRng(rng))
    /\ rng' = NextRng(NextRng(rng))
    /\ pc' = [pc EXCEPT ![r] = "load_record"]
    /\ UNCHANGED <<request, resp, sent, issued, metricVars>>

\* The rest of the iteration: the result, the counter, the end of the span.
load_record(r) ==
    /\ pc[r] = "load_record"
    /\ loc' = [loc EXCEPT
                 ![r].results = Append(@, [operation |-> loc[r].i,
                                           type |-> loc[r].operation_type]),
                 ![r].i = @ + 1]
    /\ Business(r, LoadLabel(loc[r].operation_type))
    /\ EndSpans(r, 1)
    /\ pc' = [pc EXCEPT ![r] = "load_loop"]
    /\ UNCHANGED <<request, resp, sent, httpVars, rng, now>>

load_return(r) ==
    /\ pc[r] = "load_loop"
    /\ loc[r].i >= loc[r].operations
    /\ resp' = [resp EXCEPT ![r] =
                  jsonify(200, [message |-> "Load generation completed",
                                operations |-> loc[r].operations,
                                results |-> loc[r].results])]
    /\ EndSpans(r, 1)
    /\ pc' = [pc EXCEPT ![r] = "after"]
    /\ UNCHANGED <<request, loc, sent, issued, metricVars, rng, now>>

\* --------------------------------------------------------------- requests
ErrorArgs ==
    {EmptyArgs} \cup
    {[type |-> t] : t \in {"random", "500", "404", "timeout", "success", "teapot", ""}}

ErrorKinds == {Req("GET", "/error", a) : a \in ErrorArgs}

AllKinds ==
    {Req("GET", p, EmptyArgs) : p \in Paths \cup {"/missing"}}
    \cup ErrorKinds
    \cup {Req("POST", p, EmptyArgs) : p \in {"/", "/missing"}}

ConcKinds ==
    {Req("GET", p, EmptyArgs) : p \in {"/", "/slow", "/external"}}
    \cup {Req("GET", "/error", [type |-> t]) : t \in {"success", "404"}}

\* Requests are numbered in their order of arrival.
InOrder(r) == \A q \in Reqs : q < r => pc[q] # "idle"

\* The server takes a request when it is serving no other.
OneAtATime(r) == InOrder(r) /\ \A q \in Reqs : pc[q] \in {"idle", "done"}

\* ---------------------------------------------------------- specifications
\* Every endpoint, one request at a time.
Init == InitWith(MaxRequests, 0..(SeqSeeds - 1))

Next ==
    \E r \in 1..MaxRequests :
        \/ OneAtATime(r) /\ Arrive(r, AllKinds)
        \/ before_request(r)
        \/ RoutingError(r)
        \/ HandleException(r)
        \/ after_request(r)
        \/ home(r)
        \/ health(r)
        \/ metrics(r)
        \/ slow_operation(r)
        \/ slow_cpu_work(r)
        \/ slow_return(r)
        \/ error_scenario(r)
        \/ error_branch(r)
        \/ external_call(r)
        \/ external_ok(r)
        \/ external_except(r)
        \/ generate_load(r)
        \/ load_operation(r)
        \/ load_record(r)
        \/ load_return(r)

Spec == Init /\ [][Next]_vars

\* Requests served by concurrent threads: every interleaving of their steps.
InitConc == InitWith(ConcRequests, {0})

NextConc ==
    \E r \in 1..ConcRequests :
        \/ InOrder(r) /\ Arrive(r, ConcKinds)
        \/ before_request(r)
        \/ after_request(r)
        \/ home(r)
        \/ slow_operation(r)
        \/ slow_cpu_work(r)
        \/ slow_return(r)
        \/ error_scenario(r)
        \/ error_branch(r)
        \/ external_call(r)
        \/ external_ok(r)
        \/ external_except(r)
        \/ HandleException(r)

SpecConc == InitConc /\ [][NextConc]_vars

\* GET /error only, with every value of the type parameter.
InitError == InitWith(ErrRequests, 0..(SeqSeeds - 1))

NextError ==
    \E r \in 1..ErrRequests :
        \/ OneAtATime(r) /\ Arrive(r, ErrorKinds)
        \/ before_request(r)
        \/ error_scenario(r)
        \/ error_branch(r)
        \/ after_request(r)

SpecError == InitError /\ [][NextError]_vars

\* GET /generate-load only, from every state of the generator.
InitLoad == InitWith(LoadRequests, 0..(RngMod - 1))

NextLoad ==
    \E r \in 1..LoadRequests :
        \/ OneAtATime(r) /\ Arrive(r, {Req("GET", "/generate-load", EmptyArgs)})
        \/ before_request(r)
        \/ generate_load(r)
        \/ load_operation(r)
        \/ load_record(r)
        \/ load_return(r)
        \/ after_request(r)

SpecLoad == InitLoad /\ [][NextLoad]_vars

\* GET /slow only, from every state of the generator.
InitSlow == InitWith(SlowRequests, 0..(RngMod - 1))

NextSlow ==
    \E r \in 1..SlowRequests :
        \/ OneAtATime(r) /\ Arrive(r, {Req("GET", "/slow", EmptyArgs)})
        \/ before_request(r)
        \/ slow_operation(r)
        \/ slow_cpu_work(r)
        \/ slow_return(r)
        \/ after_request(r)

SpecSlow == InitSlow /\ [][NextSlow]_vars

\* ------------------------------------------------------------------ claims
Finished(r) == pc[r] = "done"

\* The view function (or the framework, for it) has produced the response.
Answered(r) == pc[r] \in {"after", "done"}

Served(r, endpoint) == Answered(r) /\ request[r].endpoint = endpoint

RECURSIVE SumBags(_, _)
SumBags(f, S) ==
    IF S = {} THEN EmptyBag
    ELSE LET x == CHOOSE x \in S : TRUE IN f[x] (+) SumBags(f, S \ {x})

RECURSIVE SumInts(_, _)
SumInts(f, S) ==
    IF S = {} THEN 0
    ELSE LET x == CHOOSE x \in S : TRUE IN f[x] + SumInts(f, S \ {x})

IssuedHttp(S) == SumBags([r \in Reqs |-> issued[r].http], S)
IssuedBusiness(S) == SumBags([r \in Reqs |-> issued[r].business], S)
IssuedObserved(S) == SumInts([r \in Reqs |-> issued[r].observed], S)

SameBag(a, b) ==
    /\ BagToSet(a) = BagToSet(b)
    /\ \A x \in BagToSet(a) : CopiesIn(x, a) = CopiesIn(x, b)

OnlyOnce(bag, x) == BagCardinality(bag) = 1 /\ CopiesIn(x, bag) = 1

\* C1: every request, whatever its path and however its view function ends,
\* makes exactly one increment of http_requests_total and, its start time
\* recorded, exactly one observation of the duration histogram, both in
\* after_request; the counter's total is the number of completed requests.
C1_CountedExactlyOnce ==
    /\ \A r \in Reqs :
         /\ Finished(r) =>
              /\ BagCardinality(issued[r].http) = 1
              /\ request[r].start_time # NoStartTime
              /\ issued[r].observed = 1
         /\ ~Finished(r) =>
              /\ BagCardinality(issued[r].http) = 0
              /\ issued[r].observed = 0
    /\ BagCardinality(REQUEST_COUNT) = Cardinality({r \in Reqs : Finished(r)})
    /\ REQUEST_LATENCY.count = Cardinality({r \in Reqs : Finished(r)})

\* Two completed requests: one whose view function raised, one that matched
\* no route.
C1_Witness ==
    /\ \A r \in Reqs : Finished(r)
    /\ \E r \in Reqs : loc[r].exc = "ValueError" /\ resp[r].status = 500
    /\ \E r \in Reqs : request[r].endpoint = None /\ resp[r].status = 404

\* C2: with requests in flight together no increment and no observation is
\* lost: each instrument holds exactly what the requests have issued, in
\* every interleaving, in particular once all have completed, and no
\* counter value ever decreases.
C2_NothingLost ==
    /\ SameBag(REQUEST_COUNT, IssuedHttp(Reqs))
    /\ SameBag(BUSINESS_METRIC, IssuedBusiness(Reqs))
    /\ REQUEST_LATENCY.count = IssuedObserved(Reqs)

C2_Monotone ==
    /\ \A x \in BagToSet(REQUEST_COUNT) :
          CopiesIn(x, REQUEST_COUNT') >= CopiesIn(x, REQUEST_COUNT)
    /\ \A x \in BagToSet(BUSINESS_METRIC) :
          CopiesIn(x, BUSINESS_METRIC') >= CopiesIn(x, BUSINESS_METRIC)
    /\ REQUEST_LATENCY'.count >= REQUEST_LATENCY.count

ExplicitType(r) ==
    /\ "type" \in DOMAIN request[r].args
    /\ request[r].args["type"] # "random"

C3_ErrorByType ==
    \A r \in Reqs :
        (Served(r, "error_scenario") /\ ExplicitType(r)) =>
            LET t == request[r].args["type"]
            IN CASE t = "500" ->
                      /\ resp[r] = jsonify(500, [error |-> "Internal server error"])
                      /\ BagCardinality(issued[r].business) = 0
                 [] t = "404" ->
                      /\ resp[r] = jsonify(404, [error |-> "Resource not found"])
                      /\ BagCardinality(issued[r].business) = 0
                 [] t = "timeout" ->
                      /\ resp[r].status = 200
                      /\ now - request[r].start_time >= TimeoutSleep
                      /\ BagCardinality(issued[r].business) = 0
                 [] OTHER ->
                      /\ resp[r] = jsonify(200, [message |-> "No error occurred"])
                      /\ OnlyOnce(issued[r].business, "error_handled")

\* Completed requests with type 500, 404, timeout and an unrecognized value.
C3_Witness ==
    \A t \in {"500", "404", "timeout", "teapot"} :
        \E r \in Reqs : Finished(r) /\ ExplicitType(r) /\ request[r].args["type"] = t

\* C4: GET /error with type=random or without a type gives one of the four
\* defined outcomes and nothing else.
FourOutcomes(r) ==
    { o \in {"500", "404", "timeout", "success"} :
        CASE o = "500" -> resp[r] = jsonify(500, [error |-> "Internal server error"])
          [] o = "404" -> resp[r] = jsonify(404, [error |-> "Resource not found"])
          [] o = "timeout" ->
               /\ resp[r].status = 200
               /\ resp[r] # jsonify(200, [message |-> "No error occurred"])
               /\ now - request[r].start_time >= TimeoutSleep
          [] OTHER -> resp[r] = jsonify(200, [message |-> "No error occurred"]) }

C4_RandomOutcome ==
    \A r \in Reqs :
        (Served(r, "error_scenario") /\ ~ExplicitType(r)) =>
            Cardinality(FourOutcomes(r)) = 1

\* Each of the four outcomes has been produced by a request with
\* type=random or with no type.
C4_Witness ==
    \A o \in {"500", "404", "timeout", "success"} :
        \E r \in Reqs : Finished(r) /\ ~ExplicitType(r) /\ FourOutcomes(r) = {o}

\* C5: every GET /external ends in full success (200, one increment of
\* external_call_success, none of external_call_failure) or in full failure
\* (500, one increment of external_call_failure, none of
\* external_call_success), and no exception of the call or of decoding the
\* remote body leaves the view function.
C5_SuccessOrFailure ==
    \A r \in Reqs :
        /\ (pc[r] = "exception" => request[r].endpoint # "external_call")
        /\ Served(r, "external_call") =>
              \/ /\ resp[r].status = 200
                 /\ OnlyOnce(issued[r].business, "external_call_success")
              \/ /\ resp[r].status = 500
                 /\ OnlyOnce(issued[r].business, "external_call_failure")

\* C6: GET /generate-load returns 200 with 10 <= operations <= 50 and as
\* many results, the i-th with operation i and a type of fast, medium or
\* slow, and increments load_<type> once per result of that type.
TypeCount(results, t) == Cardinality({i \in 1..Len(results) : results[i].type = t})

C6_LoadResults ==
    \A r \in Reqs :
        Served(r, "generate_load") =>
            LET body == resp[r].body
            IN /\ resp[r].status = 200
               /\ LoadMin <= body.operations /\ body.operations <= LoadMax
               /\ Len(body.results) = body.operations
               /\ \A i \in 1..Len(body.results) :
                     /\ body.results[i].operation = i - 1
                     /\ body.results[i].type \in {"fast", "medium", "slow"}
               /\ \A t \in {"fast", "medium", "slow"} :
                     CopiesIn(LoadLabel(t), issued[r].business)
                        = TypeCount(body.results, t)
               /\ BagCardinality(issued[r].business) = body.operations
               /\ SameBag(BUSINESS_METRIC, IssuedBusiness(Reqs))

\* A completed request of 50 operations with results of all three types.
C6_Witness ==
    \E r \in Reqs :
        /\ Finished(r)
        /\ resp[r].body.operations = LoadMax
        /\ \A t \in {"fast", "medium", "slow"} : TypeCount(resp[r].body.results, t) > 0

\* C7: every span a view function opens is closed on every way out of its
\* block before the view function hands over to the pipeline; nested spans
\* close last opened first, and none is open when after_request runs.
RECURSIVE Replay(_, _)
\* The spans left open by a sequence of events, or <<"bad">> when an end
\* event does not close the span opened last.
Replay(evs, open) ==
    IF evs = <<>> THEN open
    ELSE LET e == Head(evs)
         IN IF e[1] = "start" THEN Replay(Tail(evs), Append(open, e[2]))
            ELSE IF open # <<>> /\ open[Len(open)] = e[2]
                 THEN Replay(Tail(evs), SubSeq(open, 1, Len(open) - 1))
                 ELSE <<"bad">>

C7_SpansClosed ==
    \A r \in Reqs :
        /\ Replay(events[r], <<>>) = stack[r]
        /\ pc[r] \in {"after", "exception", "done"} => stack[r] = <<>>

\* A completed /slow request, its two nested spans started and ended, and
\* a completed /external request whose view function raised.
C7_Witness ==
    /\ \E r \in Reqs : Finished(r) /\ Len(events[r]) = 4
    /\ \E r \in Reqs : Finished(r) /\ loc[r].exc = "ValueError" /\ Len(events[r]) = 2

\* C8: after_request returns the response it was given, status, headers and
\* body unchanged, and labels its increment with the request method, the
\* endpoint name ("unknown" when no route matched) and that response's status.
C8_AfterRequestFrame ==
    \A r \in Reqs :
        Finished(r) =>
            /\ sent[r] = resp[r]
            /\ OnlyOnce(issued[r].http,
                        [method |-> request[r].method,
                         endpoint |-> IF request[r].path \in Paths /\ request[r].method = "GET"
                                      THEN Route(request[r].path) ELSE "unknown",
                         status |-> sent[r].status])

\* A completed request that matched no route, answered 404.
C8_Witness ==
    \E r \in Reqs :
        /\ Finished(r)
        /\ request[r].path \notin Paths
        /\ sent[r].status = 404
        /\ CopiesIn([method |-> "GET", endpoint |-> "unknown", status |-> 404],
                    REQUEST_COUNT) > 0

\* C9: GET /slow returns 200 with 1.0 <= duration <= 3.0, duration being the
\* time slept, after the whole 100,000-iteration loop, and increments
\* slow_operation once.
C9_SlowSucceeds ==
    \A r \in Reqs :
        /\ pc[r] # "exception"
        /\ Served(r, "slow_operation") =>
              /\ resp[r].status = 200
              /\ SlowMin <= resp[r].body.duration
              /\ resp[r].body.duration <= SlowMax
              /\ resp[r].body.duration = loc[r].sleep_time
              /\ now - request[r].start_time >= resp[r].body.duration
              /\ loc[r].iterations = CpuIterations
              /\ OnlyOnce(issued[r].business, "slow_operation")

\* A completed /slow request that slept the longest time.
C9_Witness ==
    \E r \in Reqs : Finished(r) /\ resp[r].body.duration = SlowMax

\* C10: the body of GET /metrics is taken before the request itself is
\* counted: with one request at a time it holds exactly the increments of
\* the requests completed before it.
Earlier(r) == {q \in Reqs : q < r}

C10_MetricsSnapshot ==
    \A r \in Reqs :
        Served(r, "metrics") =>
            /\ \A q \in Earlier(r) : Finished(q)
            /\ BagCardinality(resp[r].body.http_requests_total)
                  = Cardinality(Earlier(r))
            /\ SameBag(resp[r].body.http_requests_total, IssuedHttp(Earlier(r)))
            /\ SameBag(resp[r].body.business_operations_total,
                       IssuedBusiness(Earlier(r)))
            /\ resp[r].body.http_request_duration_seconds.count
                  = Cardinality(Earlier(r))

\* A completed /metrics request served after a completed /slow request.
C10_Witness ==
    /\ Finished(1) /\ request[1].path = "/slow"
    /\ Finished(2) /\ request[2].path = "/metrics"
    /\ BagCardinality(REQUEST_COUNT) = 2

====
